---- MODULE Spec2Model ----
(***************************************************************************)
(* A model of nannou's render pass builders (src/wgpu/render_pass.rs):     *)
(* the colour attachment leaf builder, the depth/stencil attachment leaf   *)
(* builder and the root Builder with its two terminal operations,          *)
(* into_inner and begin.                                                   *)
(*                                                                         *)
(* Two specifications share the pure operators translated from the code:   *)
(*   Spec      the root Builder: color_attachment, depth_stencil_attachment*)
(*             (each applying a caller-supplied configuration function to  *)
(*             a fresh leaf builder), into_inner, begin, the drop of the   *)
(*             pass handle and the construction of a further builder;      *)
(*   SpecLeaf  one leaf builder, configured call by call.                  *)
(***************************************************************************)
EXTENDS Integers, Sequences, FiniteSets

VARIABLES
    builder,       \* the root Builder: [color_attachments, depth_stencil_attachment]
    pc,            \* "live": the Builder value is owned by the caller; "moved": consumed
    result,        \* what the terminal operation returned
    encoder,       \* the command encoder: [pass_alive]
    submitted,     \* descriptors this builder handed to begin_render_pass
    builders,      \* number of Builder values constructed so far
    colorCalls,    \* history: <<view, configuration function>> of each color_attachment call
    dsCount,       \* history: number of depth_stencil_attachment calls
    dsLast,        \* history: <<view, configuration function>> of the last such call
    leaf,          \* SpecLeaf: the leaf builder being configured
    leafKind,      \* SpecLeaf: "color", "depth_stencil" or "none"
    leafView,      \* SpecLeaf: the view the leaf builder was constructed around
    leafCalls      \* SpecLeaf: history of the calls made on the leaf builder

rootVars == <<builder, pc, result, encoder, submitted, builders, colorCalls, dsCount, dsLast>>
leafVars == <<leaf, leafKind, leafView, leafCalls>>
vars == <<builder, pc, result, encoder, submitted, builders, colorCalls, dsCount, dsLast,
          leaf, leafKind, leafView, leafCalls>>

---------------------------------------------------------------------------
(* Bounds of the model. *)

\* color_attachment calls explored per builder
MaxColorAttachments == 2

\* depth_stencil_attachment calls explored per builder
MaxDepthStencilCalls == 2

\* Builder values constructed in one run
MaxBuilders == 2

\* calls explored on one leaf builder (SpecLeaf)
MaxLeafCalls == 2

---------------------------------------------------------------------------
(* The opaque wgpu values. *)

\* Option<T>
None == [some |-> FALSE]

Some(v) == [some |-> TRUE, value |-> v]

Option(S) == {None} \cup {Some(v) : v \in S}

\* &wgpu::TextureViewHandle: the identities of the caller's texture views
Views == {"v1", "v2"}

\* &wgpu::TextureView: nannou's wrapper, which dereferences to its handle
TextureView(h) == [handle |-> h, info |-> "descriptor"]

TextureViews == {TextureView(h) : h \in Views}

\* &**t
Deref(t) == t.handle

\* Option::map(|t| &**t)
MapDeref(target) == IF target.some THEN Some(Deref(target.value)) ELSE None

\* wgpu::LoadOp
Clear(v) == <<"Clear", v>>

Load == <<"Load">>

\* wgpu::Operations { load, store }
Operations(load, store) == [load |-> load, store |-> store]

\* wgpu::Color::TRANSPARENT
TRANSPARENT == "TRANSPARENT"

BLACK == "BLACK"

\* wgpu::Operations<wgpu::Color> values a caller may pass to ops
ColorOperations ==
    { Operations(Clear(TRANSPARENT), TRUE),
      Operations(Clear(BLACK), TRUE),
      Operations(Load, FALSE) }

\* wgpu::Operations<f32> values a caller may pass to depth_ops
DepthOperations == { Operations(Clear(1), TRUE), Operations(Load, FALSE) }

\* wgpu::Operations<u32> values a caller may pass to stencil_ops
StencilOperations == { Operations(Clear(0), TRUE), Operations(Load, FALSE) }

---------------------------------------------------------------------------
(* ColorAttachmentDescriptorBuilder *)

\* Mutation: the default keeps the attachment's contents.
DEFAULT_OPS_load == Operations(Load, TRUE)

DEFAULT_OPS == Operations(Clear(TRANSPARENT), TRUE)

ColorAttachmentDescriptorBuilder_new(attachment) ==
    [descriptor |->
        [attachment |-> attachment,
         resolve_target |-> None,
         ops |-> DEFAULT_OPS]]

\* Mutation: the target is written to the attachment field.
resolve_target_wrong_field(self, target) ==
    [self EXCEPT !.descriptor.attachment =
        IF target.some THEN Deref(target.value) ELSE @]

resolve_target(self, target) ==
    [self EXCEPT !.descriptor.resolve_target = MapDeref(target)]

\* Mutation: an absent target leaves the previous one in place.
resolve_target_handle_keeps(self, target) ==
    IF target.some
    THEN [self EXCEPT !.descriptor.resolve_target = target]
    ELSE self

resolve_target_handle(self, target) ==
    [self EXCEPT !.descriptor.resolve_target = target]

ops(self, o) ==
    [self EXCEPT !.descriptor.ops = o]

---------------------------------------------------------------------------
(* DepthStencilAttachmentDescriptorBuilder *)

DEFAULT_DEPTH_OPS == Operations(Clear(1), TRUE)

DEFAULT_STENCIL_OPS == Operations(Clear(0), TRUE)

\* Mutation: the stencil plane starts out disabled.
DepthStencilAttachmentDescriptorBuilder_new_no_stencil(attachment) ==
    [descriptor |->
        [attachment |-> attachment,
         depth_ops |-> Some(DEFAULT_DEPTH_OPS),
         stencil_ops |-> None]]

DepthStencilAttachmentDescriptorBuilder_new(attachment) ==
    [descriptor |->
        [attachment |-> attachment,
         depth_ops |-> Some(DEFAULT_DEPTH_OPS),
         stencil_ops |-> Some(DEFAULT_STENCIL_OPS)]]

\* The parameter is a wgpu::Operations<f32>, not an Option of one, and it is
\* assigned as it is to the field that new fills with Some(..).
depth_ops(self, o) ==
    [self EXCEPT !.descriptor.depth_ops = o]

\* As depth_ops, for a wgpu::Operations<u32>.
stencil_ops(self, o) ==
    [self EXCEPT !.descriptor.stencil_ops = o]

---------------------------------------------------------------------------
(* Configuration functions: FnOnce(leaf builder) -> leaf builder, built from *)
(* the leaf builder's public operations.  A function is the sequence of the  *)
(* calls <<operation, argument>> it makes on the builder it is handed.       *)

ColorCall(b, c) ==
    CASE c[1] = "resolve_target" -> resolve_target(b, c[2])
      [] c[1] = "resolve_target_handle" -> resolve_target_handle(b, c[2])
      [] c[1] = "ops" -> ops(b, c[2])

DepthStencilCall(b, c) ==
    CASE c[1] = "depth_ops" -> depth_ops(b, c[2])
      [] c[1] = "stencil_ops" -> stencil_ops(b, c[2])

RECURSIVE ApplyColor(_, _)
ApplyColor(b, f) ==
    IF f = <<>> THEN b ELSE ApplyColor(ColorCall(b, Head(f)), Tail(f))

RECURSIVE ApplyDepthStencil(_, _)
ApplyDepthStencil(b, f) ==
    IF f = <<>> THEN b ELSE ApplyDepthStencil(DepthStencilCall(b, Head(f)), Tail(f))

\* The configuration functions the callers of color_attachment pass.
ColorFns ==
    { <<>>,
      << <<"ops", Operations(Load, FALSE)>> >>,
      << <<"resolve_target", Some(TextureView("v2"))>>,
         <<"ops", Operations(Clear(BLACK), TRUE)>> >>,
      << <<"resolve_target_handle", Some("v1")>>,
         <<"resolve_target", None>> >> }

\* The configuration functions the callers of depth_stencil_attachment pass.
DepthStencilFns ==
    { <<>>,
      << <<"depth_ops", Operations(Load, FALSE)>> >>,
      << <<"stencil_ops", Operations(Load, FALSE)>>,
         <<"depth_ops", Operations(Clear(1), TRUE)>> >> }

---------------------------------------------------------------------------
(* Builder *)

DEFAULT_COLOR_OPS == DEFAULT_OPS

\* Builder::new(): Self::default()
Builder_new == [color_attachments |-> <<>>, depth_stencil_attachment |-> None]

\* Mutation: the new descriptor is inserted at the front.
color_attachment_prepend(self, attachment, color_builder) ==
    LET b == ColorAttachmentDescriptorBuilder_new(attachment)
        descriptor == ApplyColor(b, color_builder).descriptor
    IN  [self EXCEPT !.color_attachments = <<descriptor>> \o @]

color_attachment(self, attachment, color_builder) ==
    LET b == ColorAttachmentDescriptorBuilder_new(attachment)
        descriptor == ApplyColor(b, color_builder).descriptor
    IN  [self EXCEPT !.color_attachments = Append(@, descriptor)]

\* Mutation: the first depth/stencil attachment is kept.
depth_stencil_attachment_first_wins(self, attachment, depth_stencil_builder) ==
    LET b == DepthStencilAttachmentDescriptorBuilder_new(attachment)
        descriptor == ApplyDepthStencil(b, depth_stencil_builder).descriptor
    IN  IF self.depth_stencil_attachment.some
        THEN self
        ELSE [self EXCEPT !.depth_stencil_attachment = Some(descriptor)]

\* Mutation: the builder is rebuilt from its default around the new attachment.
depth_stencil_attachment_from_default(self, attachment, depth_stencil_builder) ==
    LET b == DepthStencilAttachmentDescriptorBuilder_new(attachment)
        descriptor == ApplyDepthStencil(b, depth_stencil_builder).descriptor
    IN  [Builder_new EXCEPT !.depth_stencil_attachment = Some(descriptor)]

depth_stencil_attachment(self, attachment, depth_stencil_builder) ==
    LET b == DepthStencilAttachmentDescriptorBuilder_new(attachment)
        descriptor == ApplyDepthStencil(b, depth_stencil_builder).descriptor
    IN  [self EXCEPT !.depth_stencil_attachment = Some(descriptor)]

into_inner(self) ==
    <<self.color_attachments, self.depth_stencil_attachment>>

\* wgpu::RenderPassDescriptor { color_attachments: &color_attachments, depth_stencil_attachment }
RenderPassDescriptor(inner) ==
    [color_attachments |-> inner[1], depth_stencil_attachment |-> inner[2]]

\* encoder.begin_render_pass(&descriptor): the encoder is exclusively borrowed
\* by the pass handle it returns.
begin_render_pass(enc, descriptor) ==
    [encoder |-> [enc EXCEPT !.pass_alive = TRUE],
     request |-> descriptor,
     pass    |-> "RenderPass"]

\* Mutation: the depth/stencil attachment is left out of the descriptor.
begin_without_depth(self, enc) ==
    LET inner == into_inner(self)
        descriptor == RenderPassDescriptor(<<inner[1], None>>)
    IN  begin_render_pass(enc, descriptor)

begin(self, enc) ==
    LET inner == into_inner(self)
        descriptor == RenderPassDescriptor(inner)
    IN  begin_render_pass(enc, descriptor)

---------------------------------------------------------------------------
(* Spec: the root Builder. *)

NoResult == [via |-> "none", value |-> <<>>]

NoCall == <<"none", <<>>>>

RootInit ==
    /\ builder = Builder_new
    /\ pc = "live"
    /\ result = NoResult
    /\ encoder = [pass_alive |-> FALSE]
    /\ submitted = <<>>
    /\ builders = 1
    /\ colorCalls = <<>>
    /\ dsCount = 0
    /\ dsLast = NoCall

LeafIdle ==
    /\ leaf = None
    /\ leafKind = "none"
    /\ leafView = "none"
    /\ leafCalls = <<>>

Init == RootInit /\ LeafIdle

\* builder.color_attachment(attachment, color_builder)
ColorAttachment ==
    \E attachment \in Views, color_builder \in ColorFns :
        /\ pc = "live"
        /\ Len(colorCalls) < MaxColorAttachments
        /\ builder' = color_attachment(builder, attachment, color_builder)
        /\ colorCalls' = Append(colorCalls, <<attachment, color_builder>>)
        /\ UNCHANGED <<pc, result, encoder, submitted, builders, dsCount, dsLast>>
        /\ UNCHANGED leafVars

\* builder.depth_stencil_attachment(attachment, depth_stencil_builder)
DepthStencilAttachment ==
    \E attachment \in Views, depth_stencil_builder \in DepthStencilFns :
        /\ pc = "live"
        /\ dsCount < MaxDepthStencilCalls
        /\ builder' = depth_stencil_attachment(builder, attachment, depth_stencil_builder)
        /\ dsCount' = dsCount + 1
        /\ dsLast' = <<attachment, depth_stencil_builder>>
        /\ UNCHANGED <<pc, result, encoder, submitted, builders, colorCalls>>
        /\ UNCHANGED leafVars

\* Mutation: into_inner borrows the builder instead of consuming it.
IntoInner_by_ref ==
    /\ pc = "live"
    /\ result' = [via |-> "into_inner", value |-> into_inner(builder)]
    /\ UNCHANGED <<builder, pc, encoder, submitted, builders, colorCalls, dsCount, dsLast>>
    /\ UNCHANGED leafVars

\* builder.into_inner(): self is taken by value, the builder is moved
IntoInner ==
    /\ pc = "live"
    /\ result' = [via |-> "into_inner", value |-> into_inner(builder)]
    /\ pc' = "moved"
    /\ UNCHANGED <<builder, encoder, submitted, builders, colorCalls, dsCount, dsLast>>
    /\ UNCHANGED leafVars

\* builder.begin(&mut encoder): self is taken by value, and the encoder must
\* not be borrowed by a pass handle that is still alive
Begin ==
    /\ pc = "live"
    /\ ~encoder.pass_alive
    /\ LET r == begin(builder, encoder)
       IN  /\ encoder' = r.encoder
           /\ submitted' = Append(submitted, r.request)
           /\ result' = [via |-> "begin", value |-> r.pass]
    /\ pc' = "moved"
    /\ UNCHANGED <<builder, builders, colorCalls, dsCount, dsLast>>
    /\ UNCHANGED leafVars

\* The wgpu::RenderPass<'a> returned by begin is dropped: the borrow of the
\* encoder ends.
DropPass ==
    /\ encoder.pass_alive
    /\ encoder' = [encoder EXCEPT !.pass_alive = FALSE]
    /\ UNCHANGED <<builder, pc, result, submitted, builders, colorCalls, dsCount, dsLast>>
    /\ UNCHANGED leafVars

\* Builder::new() for a further render pass, once the previous builder is gone
NewBuilder ==
    /\ pc = "moved"
    /\ builders < MaxBuilders
    /\ builders' = builders + 1
    /\ builder' = Builder_new
    /\ pc' = "live"
    /\ result' = NoResult
    /\ submitted' = <<>>
    /\ colorCalls' = <<>>
    /\ dsCount' = 0
    /\ dsLast' = NoCall
    /\ UNCHANGED encoder
    /\ UNCHANGED leafVars

Next ==
    \/ ColorAttachment
    \/ DepthStencilAttachment
    \/ IntoInner
    \/ Begin
    \/ DropPass
    \/ NewBuilder

Spec == Init /\ [][Next]_vars

---------------------------------------------------------------------------
(* SpecLeaf: one leaf builder, configured call by call. *)

LeafInit ==
    /\ leafKind \in {"color", "depth_stencil"}
    /\ leafView \in Views
    /\ leaf = IF leafKind = "color"
              THEN ColorAttachmentDescriptorBuilder_new(leafView)
              ELSE DepthStencilAttachmentDescriptorBuilder_new(leafView)
    /\ leafCalls = <<>>

InitLeaf == RootInit /\ LeafInit

ResolveTarget ==
    \E target \in Option(TextureViews) :
        /\ leafKind = "color"
        /\ Len(leafCalls) < MaxLeafCalls
        /\ leaf' = resolve_target(leaf, target)
        /\ leafCalls' = Append(leafCalls, <<"resolve_target", target>>)
        /\ UNCHANGED <<leafKind, leafView>>
        /\ UNCHANGED rootVars

ResolveTargetHandle ==
    \E target \in Option(Views) :
        /\ leafKind = "color"
        /\ Len(leafCalls) < MaxLeafCalls
        /\ leaf' = resolve_target_handle(leaf, target)
        /\ leafCalls' = Append(leafCalls, <<"resolve_target_handle", target>>)
        /\ UNCHANGED <<leafKind, leafView>>
        /\ UNCHANGED rootVars

Ops ==
    \E o \in ColorOperations :
        /\ leafKind = "color"
        /\ Len(leafCalls) < MaxLeafCalls
        /\ leaf' = ops(leaf, o)
        /\ leafCalls' = Append(leafCalls, <<"ops", o>>)
        /\ UNCHANGED <<leafKind, leafView>>
        /\ UNCHANGED rootVars

DepthOps ==
    \E o \in DepthOperations :
        /\ leafKind = "depth_stencil"
        /\ Len(leafCalls) < MaxLeafCalls
        /\ leaf' = depth_ops(leaf, o)
        /\ leafCalls' = Append(leafCalls, <<"depth_ops", o>>)
        /\ UNCHANGED <<leafKind, leafView>>
        /\ UNCHANGED rootVars

StencilOps ==
    \E o \in StencilOperations :
        /\ leafKind = "depth_stencil"
        /\ Len(leafCalls) < MaxLeafCalls
        /\ leaf' = stencil_ops(leaf, o)
        /\ leafCalls' = Append(leafCalls, <<"stencil_ops", o>>)
        /\ UNCHANGED <<leafKind, leafView>>
        /\ UNCHANGED rootVars

NextLeaf ==
    \/ ResolveTarget
    \/ ResolveTargetHandle
    \/ Ops
    \/ DepthOps
    \/ StencilOps

SpecLeaf == InitLeaf /\ [][NextLeaf]_vars

---------------------------------------------------------------------------
(* What the documented behaviour of the leaf builders makes of a sequence   *)
(* of calls: each attribute holds the argument of the last call that sets   *)
(* it, or its default when no call does.                                    *)

LastCallOf(calls, fns) ==
    LET idx == {i \in 1..Len(calls) : calls[i][1] \in fns}
    IN  IF idx = {} THEN 0 ELSE CHOOSE i \in idx : \A j \in idx : j <= i

ExpectedResolveTarget(calls) ==
    LET i == LastCallOf(calls, {"resolve_target", "resolve_target_handle"})
    IN  IF i = 0 THEN [some |-> FALSE]
        ELSE IF ~calls[i][2].some THEN [some |-> FALSE]
        ELSE IF calls[i][1] = "resolve_target"
             THEN [some |-> TRUE, value |-> calls[i][2].value.handle]
             ELSE [some |-> TRUE, value |-> calls[i][2].value]

ExpectedOps(calls) ==
    LET i == LastCallOf(calls, {"ops"})
    IN  IF i = 0
        THEN [load |-> <<"Clear", "TRANSPARENT">>, store |-> TRUE]
        ELSE calls[i][2]

ExpectedColor(view, calls) ==
    [attachment |-> view,
     resolve_target |-> ExpectedResolveTarget(calls),
     ops |-> ExpectedOps(calls)]

\* The descriptor the configuration function of a depth/stencil call returned.
ReturnedDepthStencil(call) ==
    ApplyDepthStencil(DepthStencilAttachmentDescriptorBuilder_new(call[1]), call[2]).descriptor

OnlyDepthOverridden(calls) ==
    /\ calls # <<>>
    /\ \A i \in 1..Len(calls) : calls[i][1] = "depth_ops"

---------------------------------------------------------------------------
(* The claims. *)

\* C1: after N color_attachment calls, interleaved with any depth/stencil
\* calls, into_inner returns a colour list of length exactly N whose i-th
\* element is the descriptor of the i-th call: order is preserved, nothing
\* is dropped, duplicated or reordered.
C1_ColorOrderPreserved ==
    result.via = "into_inner" =>
        /\ Len(result.value[1]) = Len(colorCalls)
        /\ \A i \in 1..Len(colorCalls) :
              result.value[1][i] = ExpectedColor(colorCalls[i][1], colorCalls[i][2])

C1_Witness ==
    /\ result.via = "into_inner"
    /\ Len(colorCalls) = 2
    /\ dsCount >= 1
    /\ result.value[1][1] # result.value[1][2]
    /\ result.value[1][1].attachment = "v2"

\* C2: the depth/stencil slot into_inner returns is None after zero
\* depth_stencil_attachment calls and Some(the descriptor of the last call)
\* after one or more: a later call overwrites the earlier ones.
C2_DepthStencilLastWins ==
    result.via = "into_inner" =>
        IF dsCount = 0
        THEN result.value[2] = [some |-> FALSE]
        ELSE /\ result.value[2].some
             /\ result.value[2].value = ReturnedDepthStencil(dsLast)
             /\ result.value[2].value.attachment = dsLast[1]

C2_Witness ==
    /\ result.via = "into_inner"
    /\ dsCount = 2
    /\ result.value[2].some
    /\ result.value[2].value.attachment = "v2"
    /\ dsLast[2] # <<>>

\* C3: depth_ops and stencil_ops take an optional operations value; a
\* present value v is stored as Some(v) and an absent one as None, so that
\* the plane's field always holds an Option equal to the argument of the
\* last call; the other plane and the view are left unchanged.
C3_OptionalPlaneOps ==
    (leafKind = "depth_stencil" /\ leafCalls # <<>>) =>
        LET d == LastCallOf(leafCalls, {"depth_ops"})
            t == LastCallOf(leafCalls, {"stencil_ops"})
        IN  /\ leaf.descriptor.attachment = leafView
            /\ leaf.descriptor.depth_ops \in Option(DepthOperations)
            /\ leaf.descriptor.stencil_ops \in Option(StencilOperations)
            /\ d # 0 => leaf.descriptor.depth_ops = Some(leafCalls[d][2])
            /\ t # 0 => leaf.descriptor.stencil_ops = Some(leafCalls[t][2])
            /\ d = 0 => leaf.descriptor.depth_ops = Some(Operations(Clear(1), TRUE))
            /\ t = 0 => leaf.descriptor.stencil_ops = Some(Operations(Clear(0), TRUE))

\* C4: a colour attachment whose configuration function returns the leaf
\* builder untouched is stored with resolve_target = None and
\* ops = {load: Clear(transparent), store: true}, for every view and at
\* every position of the sequence.
C4_UntouchedColorDefaults ==
    /\ Len(builder.color_attachments) = Len(colorCalls)
    /\ \A i \in 1..Len(colorCalls) :
          colorCalls[i][2] = <<>> =>
              /\ builder.color_attachments[i].resolve_target = [some |-> FALSE]
              /\ builder.color_attachments[i].ops =
                     [load |-> <<"Clear", "TRANSPARENT">>, store |-> TRUE]

C4_Witness ==
    /\ Len(colorCalls) = 2
    /\ colorCalls[1][2] # <<>>
    /\ colorCalls[2][2] = <<>>
    /\ colorCalls[2][1] = "v2"
    /\ builder.color_attachments[2].ops.store

\* C5: a depth/stencil attachment whose configuration function overrides
\* nothing is extracted with depth_ops = Some({Clear(1.0), store}) and
\* stencil_ops = Some({Clear(0), store}); when only depth_ops is overridden
\* the extracted stencil_ops is still Some({Clear(0), store}).
C5_DepthStencilDefaults ==
    (result.via = "into_inner" /\ dsCount >= 1) =>
        LET ds == result.value[2].value
        IN  /\ dsLast[2] = <<>> =>
                /\ ds.depth_ops =
                     [some |-> TRUE, value |-> [load |-> <<"Clear", 1>>, store |-> TRUE]]
                /\ ds.stencil_ops =
                     [some |-> TRUE, value |-> [load |-> <<"Clear", 0>>, store |-> TRUE]]
            /\ OnlyDepthOverridden(dsLast[2]) =>
                ds.stencil_ops =
                     [some |-> TRUE, value |-> [load |-> <<"Clear", 0>>, store |-> TRUE]]

C5_Witness ==
    /\ result.via = "into_inner"
    /\ dsCount >= 1
    /\ OnlyDepthOverridden(dsLast[2])
    /\ dsLast[2][1][2] = Operations(Load, FALSE)
    /\ result.value[2].value.stencil_ops.some

\* C6: on a colour leaf builder the resolve target is the argument of the
\* last resolve_target / resolve_target_handle call (None when that call
\* passed None, or when there was no such call); these calls leave ops and
\* the view unchanged, and ops leaves the resolve target and the view
\* unchanged.
C6_ResolveTargetLastWins ==
    leafKind = "color" =>
        leaf.descriptor = ExpectedColor(leafView, leafCalls)

C6_Witness ==
    /\ leafKind = "color"
    /\ Len(leafCalls) = 2
    /\ leafCalls[1][1] \in {"resolve_target", "resolve_target_handle"}
    /\ leafCalls[1][2].some
    /\ leafCalls[2][1] \in {"resolve_target", "resolve_target_handle"}
    /\ ~leafCalls[2][2].some
    /\ leaf.descriptor.resolve_target = None

\* C7: begin hands the encoder, in exactly one begin_render_pass request, a
\* descriptor holding exactly the colour list and the depth/stencil slot of
\* the builder (the pair into_inner returns), the empty builder included;
\* no request is made otherwise.
C7_BeginSubmitsInner ==
    IF result.via = "begin"
    THEN /\ Len(submitted) = 1
         /\ submitted[1] =
                [color_attachments |-> builder.color_attachments,
                 depth_stencil_attachment |-> builder.depth_stencil_attachment]
         /\ Len(submitted[1].color_attachments) = Len(colorCalls)
         /\ submitted[1].depth_stencil_attachment.some = (dsCount >= 1)
    ELSE submitted = <<>>

C7_Witness ==
    /\ result.via = "begin"
    /\ Len(submitted) = 1
    /\ Len(submitted[1].color_attachments) = 2
    /\ submitted[1].depth_stencil_attachment.some

\* C8: a builder is finalized exactly once, by into_inner or by begin, never
\* both; once finalized nothing about it, its returned pair or its submitted
\* descriptor changes again; and while a pass handle is alive no begin on
\* the encoder takes place.
C8_SingleUse ==
    /\ [](pc = "moved" <=> result.via \in {"into_inner", "begin"})
    /\ [](Len(submitted) = IF result.via = "begin" THEN 1 ELSE 0)
    /\ [][(pc = "moved" /\ builders' = builders) =>
            /\ pc' = "moved"
            /\ builder' = builder
            /\ result' = result
            /\ submitted' = submitted
            /\ colorCalls' = colorCalls
            /\ dsCount' = dsCount]_vars
    /\ [][encoder.pass_alive => Len(submitted') <= Len(submitted)]_vars

C8_Witness ==
    /\ builders = 2
    /\ pc = "moved"
    /\ result.via = "into_inner"
    /\ encoder.pass_alive

\* C9: a color_attachment call leaves the depth/stencil slot and every
\* earlier colour descriptor unchanged and appends exactly one descriptor;
\* a depth_stencil_attachment call leaves the colour sequence unchanged.
C9_RootFrame ==
    [][/\ Len(colorCalls') = Len(colorCalls) + 1 =>
            /\ builder'.depth_stencil_attachment = builder.depth_stencil_attachment
            /\ Len(builder'.color_attachments) = Len(builder.color_attachments) + 1
            /\ SubSeq(builder'.color_attachments, 1, Len(builder.color_attachments))
                   = builder.color_attachments
       /\ dsCount' = dsCount + 1 =>
            builder'.color_attachments = builder.color_attachments]_vars

C9_Witness ==
    /\ pc = "live"
    /\ Len(builder.color_attachments) = 2
    /\ dsCount = 2
    /\ builder.depth_stencil_attachment.some

\* C10: the view recorded in the i-th extracted colour descriptor is the
\* view passed to the i-th color_attachment call, and the view of the
\* extracted depth/stencil descriptor is the view passed to the last
\* depth_stencil_attachment call; one view may serve several attachments.
C10_ViewsPreserved ==
    result.via = "into_inner" =>
        /\ Len(result.value[1]) = Len(colorCalls)
        /\ \A i \in 1..Len(colorCalls) :
              result.value[1][i].attachment = colorCalls[i][1]
        /\ dsCount >= 1 =>
              /\ result.value[2].some
              /\ result.value[2].value.attachment = dsLast[1]

C10_Witness ==
    /\ result.via = "into_inner"
    /\ Len(colorCalls) = 2
    /\ colorCalls[1][1] = "v1"
    /\ colorCalls[2][1] = "v1"
    /\ colorCalls[1][2] # <<>>
    /\ dsCount >= 1
    /\ dsLast[1] = "v1"
    /\ result.value[1][2].attachment = "v1"

====
